---- MODULE Spec2Model ----
(***************************************************************************)
(* Model of the nearest-neighbour spatio-temporal join scripts of          *)
(* ISRO-BAH-2025:                                                          *)
(*   merge_cpcb_with_daily.py  (Feature Joiner, left join per site)        *)
(*   merge_data.py             (all-in-one script, inner join)             *)
(*   extract_aod.py            (Nearest-Point Resolver on 1D lat/lon)      *)
(*   extract_merra.py          (independent nearest lat / nearest lon)     *)
(* Each script is a sequential program; every script has its own           *)
(* specification over its own variables, the other scripts' variables stay *)
(* at their idle values.                                                   *)
(***************************************************************************)
EXTENDS Integers, Sequences, FiniteSets, TLC

\* ------------------------------------------------------------------ bounds
\* Largest number of rows of a ground-truth (CPCB) table.
MaxGtRows == 2
\* Largest number of rows of the AOD daily feature table.
MaxAodRows == 2
\* Largest number of rows of the MERRA daily feature table.
MaxMerraRows == 1
\* Largest number of rows of one ground-truth file read by merge_data.load_cpcb.
MaxCpcbRows == 1
\* Largest length of a 1D latitude / longitude array.
MaxGridLen == 2

\* Site identifiers; the integer order stands for the lexicographic order of
\* the file stems.
Sites == {1, 2}
\* Timestamps of ground-truth rows, in hours since the epoch (UTC).
Timestamps == {23, 24}
\* Calendar dates (days since the epoch) of the daily feature tables.  A date
\* value also stands for the null date: pandas treats null keys as equal to
\* each other both in drop_duplicates and in merge.
Dates == {0, 1}
\* The null feature value (NaN); real feature values are >= 1.
Null == 0

\* ----------------------------------------------------------------- helpers
SeqsUpTo(S, n) == UNION {[1..k -> S] : k \in 0..n}

RECURSIVE KeepIdx(_, _, _)
\* The subsequence of s at the indices of K that are >= i, in order.
KeepIdx(s, K, i) ==
    IF i > Len(s) THEN <<>>
    ELSE (IF i \in K THEN <<s[i]>> ELSE <<>>) \o KeepIdx(s, K, i + 1)

\* A file stem of the CPCB folder: site s followed by gen times "_merged".
Stem(s, g) == <<s, g>>
OrigStems == {Stem(s, 0) : s \in Sites}
\* "<site>_merged", the stem of out_path.
MergedStem(st) == Stem(st[1], st[2] + 1)
\* String order of stems: "A" < "A_merged" < "A_merged_merged" < "B".
StemLess(a, b) == a[1] < b[1] \/ (a[1] = b[1] /\ a[2] < b[2])

RECURSIVE sortedDescending(_)
\* The stems from the last to the first.
sortedDescending(S) ==
    IF S = {} THEN <<>>
    ELSE LET m == CHOOSE x \in S : \A y \in S : y = x \/ StemLess(y, x)
         IN  <<m>> \o sortedDescending(S \ {m})

RECURSIVE sorted(_)
\* sorted(folder.glob("*.csv")) as a sequence.
sorted(S) ==
    IF S = {} THEN <<>>
    ELSE LET m == CHOOSE x \in S : \A y \in S : y = x \/ StemLess(x, y)
         IN  <<m>> \o sorted(S \ {m})

\* pd.to_datetime(..., utc=True).dt.date: the UTC calendar day of a timestamp.
DateOf(ts) == ts \div 24

\* ------------------------------------------------------------- input tables
\* The two date columns merge_cpcb_with_daily.main looks for.
ToUtc == "period.datetimeTo.utc"
FromUtc == "period.datetimeFrom.utc"
\* The two date columns merge_data.load_cpcb looks for.
ToLocal == "period.datetimeTo.local"
FromLocal == "period.datetimeFrom.local"

\* A ground-truth table as read by pd.read_csv: the date columns it has and,
\* per row, the timestamp in each of them.
GtTables(colNames, n) ==
    UNION {{[cols |-> c, rows |-> r] : r \in SeqsUpTo([c -> Timestamps], n)} :
           c \in SUBSET colNames}

\* A daily feature file.  The value of a row is its position in the file, so
\* that every row is told apart from every other.
AuxRowKeys == [site : OrigStems, date : Dates]
WithVals(keys) == [i \in 1..Len(keys) |-> [site |-> keys[i].site, date |-> keys[i].date, val |-> i]]
AuxFiles(n) ==
    {[exists |-> FALSE, hasDate |-> FALSE, hasSite |-> FALSE, rows |-> <<>>],
     [exists |-> TRUE, hasDate |-> FALSE, hasSite |-> TRUE, rows |-> <<>>],
     [exists |-> TRUE, hasDate |-> TRUE, hasSite |-> FALSE, rows |-> <<>>]}
    \cup {[exists |-> TRUE, hasDate |-> TRUE, hasSite |-> TRUE, rows |-> WithVals(k)] :
          k \in SeqsUpTo(AuxRowKeys, n)}
NoTable == [exists |-> FALSE, hasDate |-> FALSE, hasSite |-> FALSE, rows |-> <<>>]
NoDf == [cols |-> {}, rows |-> <<>>]

VARIABLES
    \* merge_cpcb_with_daily.py
    files,        \* stems of the *.csv files in the CPCB folder
    pc,           \* position in main: start, aod_loaded, loaded, loop, iter_end, done, error
    err,          \* the exception that ended main, "" if none
    aod,          \* the AOD daily table returned by load_daily
    merra,        \* the MERRA daily table returned by load_daily
    cpcb_files,   \* sorted(CPCB_DIR.glob("*.csv")) taken at line 28
    idx,          \* position of the for loop in cpcb_files (1-based)
    df,           \* the ground-truth table of the current iteration
    date_col,     \* the date column chosen for df, "" if none
    merged,       \* the merged table of the current iteration
    wrote,        \* stems of the merged files written by this run
    skipped,      \* stems whose file was skipped with the "Skipping" message
    \* merge_data.py
    md_pc,        \* position in the script: start, cpcb, coords, merra, aod, done, error
    md_err,       \* the exception that ended the script, "" if none
    cpcb_df,      \* the concatenated ground-truth table returned by load_cpcb
    SITE_COORDS,  \* site -> coordinate, built at lines 44-49
    merra_df,     \* the MERRA daily table
    aod_df,       \* the AOD daily table
    md_merged,    \* the merged table written to merged_daily_pm_dataset.csv
    \* Nearest-Point Resolver (extract_aod.py, extract_merra.py)
    lat_raw,      \* the 1D latitude array of the grid, in degrees
    lon_raw,      \* the 1D longitude array of the grid, in degrees
    site_pt,      \* the site coordinate <<s_lat, s_lon>>, in degrees
    aod_ij,       \* <<ii, jj>> of extract_aod (0-based), NoIndex before it ran
    merra_ij,     \* <<ilat, ilon>> of extract_merra (0-based), NoIndex before it ran
    \* The extraction functions (extract_aod.py, extract_merra.py, merge_data.py)
    ex_script,    \* which extraction runs: "aod", "merra", "md_h5", "md_merra"
    ex_pc,        \* position in it: start, loop, file_end, agg, done, error
    ex_err,       \* the exception that ended it, "" if none
    ex_n,         \* number of matching files in the source folder
    ex_i,         \* position of the for loop over the files (1-based)
    ex_cur,       \* the file of the current iteration and what was read from it
    all_data,     \* the samples appended so far (extract_daily_from_h5)
    ex_out,       \* the daily table returned
    var_names,    \* the variables requested from extract_merra
    m_plan,       \* what extract_merra decides from the first file
    m_inputs,     \* the MERRA files opened so far, in order
    per_site_frames, \* site -> the rows collected from the files
    m_sorted,     \* site -> the rows after sort_values("time")
    \* extract_aod._find_dataset
    fd_tree,      \* the objects of the file below the root: parent, kind, name
    fd_pc,        \* "idle", "run" or "returned"
    fd_stack,     \* the stack of objects still to be looked into
    fd_visited,   \* the objects popped so far
    fd_ret,       \* the path returned, NoPath for None
    \* cpcb_download.fetch_measurements_for_sensor
    ft_pc,        \* "idle", "request" (about to send), "returned"
    page,         \* the page requested next
    all_results,  \* the number of full and of short pages accumulated
    ft_last       \* the response to the last request, "" before the first

mergeVars == <<pc, err, aod, merra, cpcb_files, idx, df, date_col, merged, wrote, skipped>>
mdVars == <<md_pc, md_err, cpcb_df, SITE_COORDS, merra_df, aod_df, md_merged>>
nearVars == <<lat_raw, lon_raw, site_pt, aod_ij, merra_ij>>
exVars == <<ex_script, ex_pc, ex_err, ex_n, ex_i, ex_cur, all_data, ex_out,
            var_names, m_plan, m_inputs, per_site_frames, m_sorted>>
findVars == <<fd_tree, fd_pc, fd_stack, fd_visited, fd_ret>>
fetchVars == <<ft_pc, page, all_results, ft_last>>
vars == <<files, mergeVars, mdVars, nearVars, exVars, findVars, fetchVars>>

NoIndex == <<-1, -1>>

\* The state of a script that is not running.
MergeIdle ==
    /\ pc = "start"
    /\ err = ""
    /\ aod = NoTable
    /\ merra = NoTable
    /\ cpcb_files = <<>>
    /\ idx = 1
    /\ df = NoDf
    /\ date_col = ""
    /\ merged = <<>>
    /\ wrote = {}
    /\ skipped = {}
MdIdle ==
    /\ md_pc = "start"
    /\ md_err = ""
    /\ cpcb_df = <<>>
    /\ SITE_COORDS = <<>>
    /\ merra_df = <<>>
    /\ aod_df = <<>>
    /\ md_merged = <<>>
NearIdle ==
    /\ lat_raw = <<>>
    /\ lon_raw = <<>>
    /\ site_pt = <<0, 0>>
    /\ aod_ij = NoIndex
    /\ merra_ij = NoIndex
NoCur == [kind |-> "none"]
NoPlan == [avail |-> {}, can_rh |-> FALSE]
ExIdle ==
    /\ ex_script = "none"
    /\ ex_pc = "start"
    /\ ex_err = ""
    /\ ex_n = 0
    /\ ex_i = 1
    /\ ex_cur = NoCur
    /\ all_data = <<>>
    /\ ex_out = <<>>
    /\ var_names = {}
    /\ m_plan = NoPlan
    /\ m_inputs = <<>>
    /\ per_site_frames = <<>>
    /\ m_sorted = <<>>
NoPath == <<"None">>
FindIdle ==
    /\ fd_tree = <<>>
    /\ fd_pc = "idle"
    /\ fd_stack = <<>>
    /\ fd_visited = {}
    /\ fd_ret = NoPath
FetchIdle ==
    /\ ft_pc = "idle"
    /\ page = 1
    /\ all_results = 0
    /\ ft_last = ""
MergeFrame == UNCHANGED <<mdVars, nearVars, exVars, findVars, fetchVars>>

\* ------------------------------------------------ merge_cpcb_with_daily.py
\* load_daily: raises when the file is missing or has no 'date' column.
load_daily_error(f) ==
    IF ~f.exists THEN "FileNotFoundError"
    ELSE IF ~f.hasDate THEN "ValueError"
    ELSE ""

\* Lines 39-46: the date column of a ground-truth table, "" when it has none.
ChooseDateCol(cols) ==
    IF ToUtc \in cols THEN ToUtc
    ELSE IF FromUtc \in cols THEN FromUtc
    ELSE ""

\* Lines 49-50: df with its 'date' and 'site' columns, feature columns empty.
WithDateSite(table, col, site) ==
    [i \in 1..Len(table.rows) |->
        [src |-> i, date |-> DateOf(table.rows[i][col]), site |-> site,
         aod |-> Null, merra |-> Null]]

\* aux[aux["site"] == site]
FilterSiteNone(rows, site) == rows
FilterSite(rows, site) == SelectSeq(rows, LAMBDA r : r.site = site)

\* DataFrame.drop_duplicates(subset=["date"]): keep="first" is the default.
DropDuplicatesNone(rows) == rows
DropDuplicatesLast(rows) ==
    KeepIdx(rows, {i \in 1..Len(rows) : \A j \in (i+1)..Len(rows) : rows[j].date # rows[i].date}, 1)
DropDuplicates(rows) ==
    KeepIdx(rows, {i \in 1..Len(rows) : \A j \in 1..(i-1) : rows[j].date # rows[i].date}, 1)

RECURSIVE LeftMerge(_, _, _)
\* left.merge(right, on=["date"], how="left"): one output row per matching
\* right row, in left order; one row with a null feature when none matches.
LeftMerge(left, right, col) ==
    IF left = <<>> THEN <<>>
    ELSE LET l == Head(left)
             m == SelectSeq(right, LAMBDA r : r.date = l.date)
         IN  (IF m = <<>> THEN <<l>>
              ELSE [i \in 1..Len(m) |-> [l EXCEPT ![col] = m[i].val]])
             \o LeftMerge(Tail(left), right, col)

\* Lines 55-63 for one site.
MergeForSite(rows, site) ==
    LET aod_site == DropDuplicates(FilterSite(aod.rows, site))
        merra_site == DropDuplicates(FilterSite(merra.rows, site))
    IN  LeftMerge(LeftMerge(rows, aod_site, "aod"), merra_site, "merra")

Raise(kind) ==
    /\ pc' = "error"
    /\ err' = kind

\* Line 25: aod = load_daily(AOD_CSV, "AOD")
LoadAod ==
    /\ pc = "start"
    /\ \E f \in AuxFiles(MaxAodRows) :
         IF load_daily_error(f) # ""
         THEN Raise(load_daily_error(f)) /\ UNCHANGED aod
         ELSE pc' = "aod_loaded" /\ aod' = f /\ UNCHANGED err
    /\ UNCHANGED <<files, merra, cpcb_files, idx, df, date_col, merged, wrote, skipped>>
    /\ MergeFrame

\* Line 26: merra = load_daily(MERRA_CSV, "MERRA")
LoadMerra ==
    /\ pc = "aod_loaded"
    /\ \E f \in AuxFiles(MaxMerraRows) :
         IF load_daily_error(f) # ""
         THEN Raise(load_daily_error(f)) /\ UNCHANGED merra
         ELSE pc' = "loaded" /\ merra' = f /\ UNCHANGED err
    /\ UNCHANGED <<files, aod, cpcb_files, idx, df, date_col, merged, wrote, skipped>>
    /\ MergeFrame

\* Lines 28-31: list the ground-truth files; return when there is none.
GlobFiles ==
    /\ pc = "loaded"
    /\ cpcb_files' = sorted(files)
    /\ idx' = 1
    /\ pc' = IF files = {} THEN "done" ELSE "loop"
    /\ UNCHANGED <<files, err, aod, merra, df, date_col, merged, wrote, skipped>>
    /\ MergeFrame

\* Lines 34-67: the body of the for loop for cpcb_files[idx].  The content of
\* the file is an input read at line 36.
MergeSite ==
    /\ pc = "loop"
    /\ idx <= Len(cpcb_files)
    /\ \E table \in GtTables({ToUtc, FromUtc}, MaxGtRows) :
         LET site == cpcb_files[idx]
             col == ChooseDateCol(table.cols)
         IN  /\ df' = table
             /\ date_col' = col
             /\ IF col = ""
                THEN \* line 45-46: print "Skipping" and continue
                     /\ skipped' = skipped \cup {site}
                     /\ pc' = "iter_end"
                     /\ UNCHANGED <<err, merged, wrote, files>>
                ELSE IF ~aod.hasSite \/ ~merra.hasSite
                THEN \* line 53-54
                     /\ Raise("ValueError")
                     /\ UNCHANGED <<merged, wrote, files, skipped>>
                ELSE IF table.rows = <<>>
                THEN \* line 55: df["site"].iloc[0] on an empty frame
                     /\ Raise("IndexError")
                     /\ UNCHANGED <<merged, wrote, files, skipped>>
                ELSE /\ merged' = MergeForSite(WithDateSite(table, col, site), site)
                     /\ wrote' = wrote \cup {MergedStem(site)}
                     /\ files' = files \cup {MergedStem(site)}
                     /\ pc' = "iter_end"
                     /\ UNCHANGED <<err, skipped>>
    /\ UNCHANGED <<aod, merra, cpcb_files, idx>>
    /\ MergeFrame

\* Line 33: the for loop takes the next file (the locals of the previous
\* iteration are rebound), or main returns after the last one.
NextSite ==
    /\ pc = "iter_end"
    /\ idx' = idx + 1
    /\ df' = NoDf
    /\ date_col' = ""
    /\ merged' = <<>>
    /\ pc' = IF idx + 1 > Len(cpcb_files) THEN "done" ELSE "loop"
    /\ UNCHANGED <<files, err, aod, merra, cpcb_files, wrote, skipped>>
    /\ MergeFrame

MergeInit ==
    /\ files \in SUBSET OrigStems
    /\ MergeIdle
    /\ MdIdle
    /\ NearIdle
    /\ ExIdle
    /\ FindIdle
    /\ FetchIdle

MergeNext == LoadAod \/ LoadMerra \/ GlobFiles \/ MergeSite \/ NextSite

SpecMerge == MergeInit /\ [][MergeNext]_vars

\* ------------------------------------ claims on merge_cpcb_with_daily.main
\* C25 (as claimed): no step of a merge run changes the set of *.csv files of
\* the CPCB folder, so the site list derived from the folder after the run is
\* the one derived before it.
C25_SiteFilesUnchanged == [][sorted(files') = sorted(files)]_vars

\* The site of the current iteration and whether its merged file was written.
CurSite == cpcb_files[idx]
WroteCurrent == pc = "iter_end" /\ date_col # "" /\ MergedStem(CurSite) \in wrote
\* Positions of the rows of a feature table that belong to a site and a date.
AuxMatches(aux, site, d) ==
    {k \in 1..Len(aux.rows) : aux.rows[k].site = site /\ aux.rows[k].date = d}
Min(S) == CHOOSE x \in S : \A y \in S : x <= y
Max(S) == CHOOSE x \in S : \A y \in S : x >= y

\* C1: the merged table written for a site has exactly as many rows as the
\* site's ground-truth table, whatever the AOD and MERRA tables hold.
C1_RowCountPreserved ==
    WroteCurrent => Len(merged) = Len(df.rows)
\* C1 witness: a two-row ground-truth table merged against an AOD table that
\* holds two rows for this site and the date of the first ground-truth row.
C1_Witness ==
    /\ WroteCurrent
    /\ Len(df.rows) = 2
    /\ Cardinality(AuxMatches(aod, CurSite, DateOf(df.rows[1][date_col]))) = 2
    /\ merra.rows = <<>>

\* C2: a merged row of site S and date d carries the values of a feature row
\* of site S and date d when there is one and null values otherwise; its date
\* is the UTC day of the chosen timestamp column.
C2_ValuesFromOwnSiteAndDate ==
    WroteCurrent =>
        \A i \in 1..Len(merged) :
            /\ merged[i].site = CurSite
            /\ merged[i].date = DateOf(df.rows[merged[i].src][date_col])
            /\ LET A == AuxMatches(aod, CurSite, merged[i].date)
                   M == AuxMatches(merra, CurSite, merged[i].date)
               IN  /\ IF A = {} THEN merged[i].aod = Null
                      ELSE merged[i].aod \in {aod.rows[k].val : k \in A}
                   /\ IF M = {} THEN merged[i].merra = Null
                      ELSE merged[i].merra \in {merra.rows[k].val : k \in M}
\* C2 witness: the AOD table has a row of another site on the date of a merged
\* row and no row of this site on that date (the value stays null), while
\* another merged row takes the value of a row of its own site.
C2_Witness ==
    /\ WroteCurrent
    /\ \E i \in 1..Len(merged) :
         /\ merged[i].aod = Null
         /\ \E k \in 1..Len(aod.rows) :
              aod.rows[k].date = merged[i].date /\ aod.rows[k].site # CurSite
    /\ \E i \in 1..Len(merged) : merged[i].aod # Null

\* C4 (as claimed): a ground-truth table with a date column and zero rows is
\* merged into a zero-row table that is written, and main does not raise.
C4_EmptyTableMerged ==
    (date_col # "" /\ df.rows = <<>> /\ aod.hasSite /\ merra.hasSite) =>
        (pc # "error" /\ merged = <<>> /\ MergedStem(CurSite) \in wrote)

\* C5 (as claimed): of several feature rows of the site with the same date the
\* last one in table order is joined.
C5_LastOccurrenceWins ==
    WroteCurrent =>
        \A i \in 1..Len(merged) :
            LET A == AuxMatches(aod, CurSite, merged[i].date)
                M == AuxMatches(merra, CurSite, merged[i].date)
            IN  /\ A # {} => merged[i].aod = aod.rows[Max(A)].val
                /\ M # {} => merged[i].merra = merra.rows[Max(M)].val
\* C5 (amended): of several feature rows of the site with the same date the
\* first one in table order is joined; the later ones are discarded.
C5_FirstOccurrenceWins ==
    WroteCurrent =>
        \A i \in 1..Len(merged) :
            LET A == AuxMatches(aod, CurSite, merged[i].date)
                M == AuxMatches(merra, CurSite, merged[i].date)
            IN  /\ A # {} => merged[i].aod = aod.rows[Min(A)].val
                /\ M # {} => merged[i].merra = merra.rows[Min(M)].val
\* C5 witness: a merged row whose date occurs twice for this site in the AOD
\* table.
C5_Witness ==
    /\ WroteCurrent
    /\ \E i \in 1..Len(merged) :
         Cardinality(AuxMatches(aod, CurSite, merged[i].date)) >= 2

\* C6, the part on merge_cpcb_with_daily.main: with both columns present the
\* date comes from the period-end column.
MainPrefersPeriodEnd ==
    (pc = "iter_end" /\ {ToUtc, FromUtc} \subseteq df.cols) =>
        /\ date_col = ToUtc
        /\ \A i \in 1..Len(merged) :
             merged[i].date = DateOf(df.rows[merged[i].src][ToUtc])

\* C7 (as claimed): once a ground-truth table without any recognized date
\* column has been met, the run is aborted with an error and has written no
\* merged file.
C7_MissingColumnAborts ==
    skipped # {} => (pc = "error" /\ wrote = {})

\* ------------------------------------------------------------ merge_data.py
\* COORD_LIST, cut to as many entries as the model has sites and rounded to
\* whole degrees.
COORD_LIST == <<<<13, 80>>, <<26, 80>>>>

\* Lines 31-36: the column load_cpcb takes the date from, "" when it raises.
LocalDateCol(cols) ==
    IF FromLocal \in cols THEN FromLocal
    ELSE IF ToLocal \in cols THEN ToLocal
    ELSE ""

\* pd.to_datetime(...).dt.date: the calendar day of a local timestamp.
LocalDateOf(ts) == ts \div 24

RECURSIVE ConcatFrames(_, _, _)
\* Lines 27-39: the frames of the files fs[i..], each with its 'date' and
\* 'site' columns, concatenated in file order.
ConcatFrames(tabs, fs, i) ==
    IF i > Len(fs) THEN <<>>
    ELSE LET t == tabs[fs[i]]
             c == LocalDateCol(t.cols)
         IN  [k \in 1..Len(t.rows) |->
                 [src |-> <<fs[i], k>>, ts |-> t.rows[k], date |-> LocalDateOf(t.rows[k][c]),
                  site |-> fs[i], merra |-> Null, aod |-> Null]]
             \o ConcatFrames(tabs, fs, i + 1)

\* load_cpcb raises ValueError for a file without a date column, and
\* pd.concat raises ValueError on an empty list of frames.
load_cpcb_raises(tabs, fs) ==
    \/ fs = <<>>
    \/ \E i \in 1..Len(fs) : LocalDateCol(tabs[fs[i]].cols) = ""

RECURSIVE InnerMerge(_, _, _)
\* left.merge(right, on=["site", "date"], how="inner"): one output row per
\* matching right row; a left row without a match is dropped.
InnerMerge(left, right, col) ==
    IF left = <<>> THEN <<>>
    ELSE LET l == Head(left)
             m == SelectSeq(right, LAMBDA r : r.site = l.site /\ r.date = l.date)
         IN  [i \in 1..Len(m) |-> [l EXCEPT ![col] = m[i].val]]
             \o InnerMerge(Tail(left), right, col)

\* A daily feature table as an extraction returns it: one row per (site, date).
DailyTables(n) ==
    {WithVals(k) : k \in {q \in SeqsUpTo(AuxRowKeys, n) :
                            \A a, b \in 1..Len(q) : a # b => q[a] # q[b]}}

MdFrame == UNCHANGED <<files, mergeVars, nearVars, exVars, findVars, fetchVars>>

MdRaise(kind) ==
    /\ md_pc' = "error"
    /\ md_err' = kind

\* Line 41: cpcb_df = load_cpcb(CPCB_FOLDER).  The contents of the files are
\* inputs.
LoadCpcb ==
    /\ md_pc = "start"
    /\ \E tabs \in [files -> GtTables({ToLocal, FromLocal}, MaxCpcbRows)] :
         IF load_cpcb_raises(tabs, sorted(files))
         THEN MdRaise("ValueError") /\ UNCHANGED cpcb_df
         ELSE /\ cpcb_df' = ConcatFrames(tabs, sorted(files), 1)
              /\ md_pc' = "cpcb"
              /\ UNCHANGED md_err
    /\ UNCHANGED <<SITE_COORDS, merra_df, aod_df, md_merged>>
    /\ MdFrame

\* Lines 44-49: the sorted stems zipped with COORD_LIST.
BuildSiteCoords ==
    /\ md_pc = "cpcb"
    /\ LET sites == sorted(files)
       IN  IF Len(sites) # Len(COORD_LIST)
           THEN MdRaise("ValueError") /\ UNCHANGED SITE_COORDS
           ELSE /\ SITE_COORDS' = [i \in 1..Len(sites) |-> <<sites[i], COORD_LIST[i]>>]
                /\ md_pc' = "coords"
                /\ UNCHANGED md_err
    /\ UNCHANGED <<cpcb_df, merra_df, aod_df, md_merged>>
    /\ MdFrame

\* Line 113: merra_df = extract_daily_from_merra_folder(...); the daily table
\* it returns is an input here, or the extraction raises.
ExtractMerra ==
    /\ md_pc = "coords"
    /\ \/ \E t \in DailyTables(MaxMerraRows) :
            merra_df' = t /\ md_pc' = "merra" /\ UNCHANGED md_err
       \/ MdRaise("ExtractionError") /\ UNCHANGED merra_df
    /\ UNCHANGED <<cpcb_df, SITE_COORDS, aod_df, md_merged>>
    /\ MdFrame

\* Line 197: aod_df = extract_daily_from_h5(...); as for MERRA.
ExtractAod ==
    /\ md_pc = "merra"
    /\ \/ \E t \in DailyTables(MaxAodRows) :
            aod_df' = t /\ md_pc' = "aod" /\ UNCHANGED md_err
       \/ MdRaise("ExtractionError") /\ UNCHANGED aod_df
    /\ UNCHANGED <<cpcb_df, SITE_COORDS, merra_df, md_merged>>
    /\ MdFrame

\* Lines 202-208: the two merges and the save.
MergeAll ==
    /\ md_pc = "aod"
    /\ md_merged' = InnerMerge(InnerMerge(cpcb_df, merra_df, "merra"), aod_df, "aod")
    /\ md_pc' = "done"
    /\ UNCHANGED <<md_err, cpcb_df, SITE_COORDS, merra_df, aod_df>>
    /\ MdFrame

MdInit ==
    /\ files \in SUBSET OrigStems
    /\ MergeIdle
    /\ MdIdle
    /\ NearIdle
    /\ ExIdle
    /\ FindIdle
    /\ FetchIdle

MdNext == LoadCpcb \/ BuildSiteCoords \/ ExtractMerra \/ ExtractAod \/ MergeAll

SpecMergeData == MdInit /\ [][MdNext]_vars

\* C23: the step that builds the site-to-coordinate mapping raises ValueError
\* and leaves no mapping when the number of site files differs from the
\* number of coordinates; otherwise the mapping holds exactly the stems of
\* the site files, and the stem with i-1 stems before it in string order has
\* the i-th coordinate of the list.
C23_SiteCoordsBuilt ==
    [][(md_pc = "cpcb" /\ md_pc' # "cpcb") =>
         IF Cardinality(files) # Len(COORD_LIST)
         THEN /\ md_pc' = "error"
              /\ md_err' = "ValueError"
              /\ SITE_COORDS' = <<>>
         ELSE /\ md_pc' = "coords"
              /\ Len(SITE_COORDS') = Cardinality(files)
              /\ {SITE_COORDS'[i][1] : i \in 1..Len(SITE_COORDS')} = files
              /\ \A i \in 1..Len(SITE_COORDS') :
                    SITE_COORDS'[i][2] =
                        COORD_LIST[1 + Cardinality({m \in files :
                                        StemLess(m, SITE_COORDS'[i][1])})]]_vars
\* A mapping of as many sites as there are coordinates was built.
C23_Witness ==
    /\ md_pc = "coords"
    /\ Len(SITE_COORDS) = Len(COORD_LIST)
    /\ Len(SITE_COORDS) > 1

\* ----------------------------------------------------- claims on merge_data
\* C3 (as claimed): every ground-truth row is present in the merged output of
\* merge_data.py, with null features where the MERRA or AOD daily table has no
\* row for its (site, date).
C3_GroundTruthRowsKept ==
    md_pc = "done" =>
        \A i \in 1..Len(cpcb_df) :
            \E j \in 1..Len(md_merged) :
                /\ md_merged[j].src = cpcb_df[i].src
                /\ (\A k \in 1..Len(merra_df) :
                        ~(merra_df[k].site = cpcb_df[i].site /\ merra_df[k].date = cpcb_df[i].date))
                   => md_merged[j].merra = Null
                /\ (\A k \in 1..Len(aod_df) :
                        ~(aod_df[k].site = cpcb_df[i].site /\ aod_df[k].date = cpcb_df[i].date))
                   => md_merged[j].aod = Null

\* C6, the part on merge_data.load_cpcb: a row of a table that has both the
\* period-end and the period-start column takes its date from the period-end
\* column.
LoadCpcbPrefersPeriodEnd ==
    \A i \in 1..Len(cpcb_df) :
        {ToLocal, FromLocal} \subseteq DOMAIN cpcb_df[i].ts =>
            cpcb_df[i].date = LocalDateOf(cpcb_df[i].ts[ToLocal])

\* C6 (as claimed): whenever a ground-truth table has both a period-end and a
\* period-start column the join date comes from the period-end column, in
\* merge_cpcb_with_daily.main and in merge_data.load_cpcb.
C6_PeriodEndPreferred ==
    MainPrefersPeriodEnd /\ LoadCpcbPrefersPeriodEnd

\* ------------------------------------------------- Nearest-Point Resolver
\* Grid and site coordinates, in whole degrees (multiples of 5).
LatVals == {35, 40, 50, 55}
LonVals == {50, 75, 80, 85}
SiteLats == {45, 50}
SiteLons == {80, 85}

Abs(x) == IF x < 0 THEN -x ELSE x

\* 1000 * cos of 0, 5, ..., 90 degrees, rounded.
CosTab == <<1000, 996, 985, 966, 940, 906, 866, 819, 766, 707,
            643, 574, 500, 423, 342, 259, 174, 87, 0>>
\* np.cos(np.radians(d)) in thousandths, d a multiple of 5 with |d| <= 180.
Cos(d) ==
    IF Abs(d) <= 90 THEN CosTab[(Abs(d) \div 5) + 1]
    ELSE -CosTab[((180 - Abs(d)) \div 5) + 1]

\* haversine: with sin(x/2)^2 = (1 - cos x)/2 the code's
\*   a = sin(dlat/2)^2 + cos(lat1) * cos(lat2) * sin(dlon/2)^2
\* is returned as 2 * 10^9 * a.  The distance 2 * R * arcsin(sqrt(a)) is
\* strictly increasing in a, so minima and ties are those of the distance.
haversine(lat1, lon1, lat2, lon2) ==
    1000000 * (1000 - Cos(lat2 - lat1))
    + Cos(lat1) * Cos(lat2) * (1000 - Cos(lon2 - lon1))

\* np.meshgrid(lat_raw, lon_raw, indexing="ij"): LAT[i][j] = lat[i] and
\* LON[i][j] = lon[j], of shape (len(lat), len(lon)).
MeshgridXY(lat, lon) ==
    [LAT |-> [i \in 1..Len(lon) |-> [j \in 1..Len(lat) |-> lat[j]]],
     LON |-> [i \in 1..Len(lon) |-> [j \in 1..Len(lat) |-> lon[i]]],
     shape |-> <<Len(lon), Len(lat)>>]
Meshgrid(lat, lon) ==
    [LAT |-> [i \in 1..Len(lat) |-> [j \in 1..Len(lon) |-> lat[i]]],
     LON |-> [i \in 1..Len(lat) |-> [j \in 1..Len(lon) |-> lon[j]]],
     shape |-> <<Len(lat), Len(lon)>>]

\* dist = haversine(s_lat, s_lon, LAT, LON), elementwise.
DistGrid(s, g) ==
    [i \in 1..g.shape[1] |-> [j \in 1..g.shape[2] |->
        haversine(s[1], s[2], g.LAT[i][j], g.LON[i][j])]]

\* The row-major (C order) flattening np.argmin works on.
Flatten(d, shape) ==
    [k \in 1..(shape[1] * shape[2]) |->
        d[((k - 1) \div shape[2]) + 1][((k - 1) % shape[2]) + 1]]

\* np.argmin: the 0-based position of the first occurrence of the minimum.
argminLast(flat) ==
    Max({k \in 0..(Len(flat) - 1) : \A q \in 1..Len(flat) : flat[k + 1] <= flat[q]})
argmin(flat) ==
    Min({k \in 0..(Len(flat) - 1) : \A q \in 1..Len(flat) : flat[k + 1] <= flat[q]})

\* np.unravel_index(k, shape) for a 2D shape.
unravel_index(k, shape) == <<k \div shape[2], k % shape[2]>>

\* extract_aod.extract_daily_from_h5, lines 92-93 and 124-125.
NearestCell(lat, lon, s) ==
    LET g == Meshgrid(lat, lon)
        dist == DistGrid(s, g)
    IN  unravel_index(argmin(Flatten(dist, g.shape)), g.shape)

\* extract_merra._nearest_index: np.nanargmin(np.abs(coord - value)).
nearest_index(coord, value) ==
    argmin([i \in 1..Len(coord) |-> Abs(coord[i] - value)])

NearFrame == UNCHANGED <<files, mergeVars, mdVars, exVars, findVars, fetchVars>>

\* extract_aod: the nearest pixel of the site (lines 122-125).
ResolveAod ==
    /\ aod_ij = NoIndex
    /\ aod_ij' = NearestCell(lat_raw, lon_raw, site_pt)
    /\ UNCHANGED <<lat_raw, lon_raw, site_pt, merra_ij>>
    /\ NearFrame

\* extract_merra: the site -> (ilat, ilon) map (lines 79-82).
ResolveMerra ==
    /\ merra_ij = NoIndex
    /\ merra_ij' = <<nearest_index(lat_raw, site_pt[1]), nearest_index(lon_raw, site_pt[2])>>
    /\ UNCHANGED <<lat_raw, lon_raw, site_pt, aod_ij>>
    /\ NearFrame

NearInit ==
    /\ files = {}
    /\ MergeIdle
    /\ MdIdle
    /\ lat_raw \in SeqsUpTo(LatVals, MaxGridLen) \ {<<>>}
    /\ lon_raw \in SeqsUpTo(LonVals, MaxGridLen) \ {<<>>}
    /\ site_pt \in SiteLats \X SiteLons
    /\ aod_ij = NoIndex
    /\ merra_ij = NoIndex
    /\ ExIdle
    /\ FindIdle
    /\ FetchIdle

NearNext == ResolveAod \/ ResolveMerra

SpecNearest == NearInit /\ [][NearNext]_vars

\* ------------------------------------- claims on the Nearest-Point Resolver
\* The distance from the site to the grid cell (i, j), 0-based, with the row
\* indexing latitude and the column indexing longitude.
CellDist(c) == haversine(site_pt[1], site_pt[2], lat_raw[c[1] + 1], lon_raw[c[2] + 1])
Cells == (0..(Len(lat_raw) - 1)) \X (0..(Len(lon_raw) - 1))
MinCells == {c \in Cells : \A e \in Cells : CellDist(c) <= CellDist(e)}
RowMajorLess(a, b) == a[1] < b[1] \/ (a[1] = b[1] /\ a[2] < b[2])

RECURSIVE BruteForceScan(_, _)
\* A row-major scan over the cells k, k+1, ... that keeps a cell only when it
\* is strictly nearer than the best cell so far.
BruteForceScan(k, best) ==
    IF k >= Len(lat_raw) * Len(lon_raw) THEN best
    ELSE LET c == <<k \div Len(lon_raw), k % Len(lon_raw)>>
         IN  BruteForceScan(k + 1, IF CellDist(c) < CellDist(best) THEN c ELSE best)

\* C8: the (row, col) computed by extract_aod from 1D latitude and longitude
\* arrays equals the cell a brute-force row-major scan over the haversine
\* distance keeps.
C8_MatchesBruteForce ==
    aod_ij # NoIndex => aod_ij = BruteForceScan(1, <<0, 0>>)
\* C8 witness: a 2 x 2 grid of distinct coordinates whose nearest cell is
\* neither on the first row nor on the first column.
C8_Witness ==
    /\ aod_ij # NoIndex
    /\ Len(lat_raw) = 2 /\ Len(lon_raw) = 2
    /\ lat_raw[1] # lat_raw[2] /\ lon_raw[1] # lon_raw[2]
    /\ aod_ij = <<1, 1>>

\* C9 (as claimed): the cell extract_merra picks by nearest latitude and
\* nearest longitude is a cell of minimal haversine distance to the site.
C9_SeparableIsHaversineMin ==
    merra_ij # NoIndex => merra_ij \in MinCells

\* C10: when several cells are at the same minimal distance, extract_aod
\* returns the first of them in row-major order.
C10_TieFirstRowMajor ==
    (aod_ij # NoIndex /\ Cardinality(MinCells) >= 2) =>
        /\ aod_ij \in MinCells
        /\ \A c \in MinCells : c = aod_ij \/ RowMajorLess(aod_ij, c)
\* C10 witness: two cells with different coordinates tie for the minimum.
C10_Witness ==
    /\ aod_ij # NoIndex
    /\ \E c, e \in MinCells :
         /\ c # e
         /\ <<lat_raw[c[1] + 1], lon_raw[c[2] + 1]>> # <<lat_raw[e[1] + 1], lon_raw[e[2] + 1]>>

\* =========================================================================
\* The extraction functions: extract_aod.extract_daily_from_h5,
\* extract_merra.extract_daily_from_merra_folder, and the two of merge_data.
\* ex_script says which one runs; the source folder holds ex_n matching files,
\* whose contents are read when the loop reaches them.
\* =========================================================================
\* Largest number of *.h5 files in the folder.
MaxH5Files == 2

ExFrame == UNCHANGED <<files, mergeVars, mdVars, nearVars, findVars, fetchVars>>
ExRaise(kind) == ex_pc' = "error" /\ ex_err' = kind

\* `if not files: raise ...` of the four functions; "" when there are files.
NoFilesNoError(script, n) == ""
NoFilesError(script, n) ==
    IF n # 0 THEN ""
    ELSE IF script = "md_merra" THEN "ValueError" ELSE "FileNotFoundError"

\* site_coords: site -> (lat, lon).
H5SiteCoords == [s \in Sites |-> IF s = 1 THEN <<45, 80>> ELSE <<50, 85>>]
\* The 1D latitude and longitude arrays of a file: grids of shape (1,2), (2,1),
\* (2,2) and (2,3).
H5Grids ==
    { [lat |-> <<40>>, lon |-> <<75, 85>>],
      [lat |-> <<40, 55>>, lon |-> <<85>>],
      [lat |-> <<40, 55>>, lon |-> <<75, 85>>],
      [lat |-> <<40, 55>>, lon |-> <<50, 75, 85>>] }
\* Shapes of the AOD array of a file whose grid has shape sh: the grid's, its
\* transpose, either with a leading singleton, with a trailing singleton,
\* flattened, and one row too many.
AodShapes(sh) ==
    { sh, <<sh[2], sh[1]>>, <<1>> \o sh, <<1, sh[2], sh[1]>>, sh \o <<1>>,
      <<sh[1] * sh[2]>>, <<sh[1] + 1, sh[2]>> }
\* File names by their date token: m says the name matches
\* _(\d{2}[A-Z]{3}\d{4})_, valid that the token is a date strptime accepts,
\* date the day of the token (or of the file's mtime when m is FALSE).
H5Names ==
    [m : {TRUE}, valid : {TRUE}, date : Dates] \cup
    [m : {FALSE}, valid : {FALSE}, date : Dates] \cup
    [m : {TRUE}, valid : {FALSE}, date : {0}]
\* The fill value that marks a cell without a retrieval; it is finite and
\* below every plausible AOD.
FillValue == -999
\* A *.h5 file: its name, whether _find_dataset locates the three datasets, its
\* coordinate arrays, the shape of its AOD array and the array's contents (the
\* element at C-order position k holds base + k, or every element holds the
\* fill value).  Of the files without the
\* datasets one stands for all.
H5Inputs ==
    UNION { [name : H5Names, located : {TRUE}, lat : {g.lat}, lon : {g.lon},
             shape : AodShapes(<<Len(g.lat), Len(g.lon)>>),
             base : {1, FillValue}]
            : g \in H5Grids }
    \cup { [name |-> [m |-> FALSE, valid |-> FALSE, date |-> 0],
             located |-> FALSE, lat |-> <<40>>, lon |-> <<75, 85>>,
             shape |-> <<1, 2>>, base |-> 1] }

\* An array is seen through a view: the shape of the view and, for each of its
\* axes, the axis of the stored array it runs along; the other axes of the
\* stored array (all of length 1) are read at 0.
RawView(shape) == [shape |-> shape, axes |-> [k \in 1..Len(shape) |-> k]]
RECURSIVE KeepAxes(_, _)
KeepAxes(shape, k) ==
    IF k > Len(shape) THEN <<>>
    ELSE (IF shape[k] # 1 THEN <<k>> ELSE <<>>) \o KeepAxes(shape, k + 1)
\* np.squeeze(aod_raw): every axis of length 1 is removed.
squeeze(shape) ==
    LET ax == KeepAxes(shape, 1)
    IN [shape |-> [k \in 1..Len(ax) |-> shape[ax[k]]], axes |-> ax]
\* aod_raw[0, ...]
DropFirstAxis(shape) ==
    [shape |-> Tail(shape), axes |-> [k \in 1..(Len(shape) - 1) |-> k + 1]]
\* The index into the stored array (0-based) of element ix of a view.
RawIndex(view, ix, ndim) ==
    [a \in 1..ndim |->
        IF \E k \in 1..Len(view.axes) : view.axes[k] = a
        THEN ix[CHOOSE k \in 1..Len(view.axes) : view.axes[k] = a]
        ELSE 0]
Raised == <<-1>>
\* pick_value(ii, jj, arr): the index read, or Raised for the ValueError.
pick_value(ii, jj, arr, LATshape) ==
    IF Len(arr.shape) = 2 /\ arr.shape = LATshape THEN <<ii, jj>>
    ELSE IF Len(arr.shape) = 2 /\ arr.shape = <<LATshape[2], LATshape[1]>>
    THEN <<jj, ii>>
    ELSE Raised
\* The try/except around pick_value: the index into the stored array that the
\* sample is read at, or Raised.
PickRaw(ii, jj, shape, LATshape) ==
    LET aod2 == squeeze(shape)
        r == pick_value(ii, jj, aod2, LATshape)
    IN IF r # Raised THEN RawIndex(aod2, r, Len(shape))
       ELSE IF Len(shape) = 3 /\ shape[1] = 1
       THEN LET v == DropFirstAxis(shape)
                r2 == pick_value(ii, jj, v, LATshape)
            IN IF r2 # Raised THEN RawIndex(v, r2, Len(shape)) ELSE Raised
       ELSE Raised
RECURSIVE LinIndex(_, _, _)
\* C-order position of index ix in an array of the given shape.
LinIndex(ix, shape, k) ==
    IF k = 0 THEN 0 ELSE LinIndex(ix, shape, k - 1) * shape[k] + ix[k]
ValueAt(f, raw) ==
    IF f.base = FillValue THEN FillValue
    ELSE f.base + LinIndex(raw, f.shape, Len(f.shape))

\* The timestamp of a file: Raised when strptime rejects the token.
H5Timestamp(name) ==
    IF name.m THEN (IF name.valid THEN name.date ELSE -1) ELSE name.date

\* What the loop over site_coords reads from file f: per site the nearest cell
\* and the index read.
H5Reads(f) ==
    LET LATshape == Meshgrid(f.lat, f.lon).shape
    IN [s \in Sites |->
          LET ij == NearestCell(f.lat, f.lon, H5SiteCoords[s])
          IN [ij |-> ij, raw |-> PickRaw(ij[1], ij[2], f.shape, LATshape)]]
RECURSIVE H5Samples(_, _, _)
\* The rows appended to all_data for file f, one per site in the order of
\* site_coords.
H5Samples(f, reads, s) ==
    IF s \notin Sites THEN <<>>
    ELSE <<[site |-> s, date |-> H5Timestamp(f.name),
            val |-> ValueAt(f, reads[s].raw)]>> \o H5Samples(f, reads, s + 1)

\* ---- df.groupby(["site", "date"], as_index=False).mean()
RECURSIVE Gcd(_, _)
Gcd(a, b) == IF b = 0 THEN a ELSE Gcd(b, a % b)
\* The quotient sum/n as a fraction in lowest terms.
Frac(sum, n) == LET g == Gcd(sum, n) IN <<sum \div g, n \div g>>
RECURSIVE SumVals(_)
SumVals(rows) == IF rows = <<>> THEN 0 ELSE Head(rows).val + SumVals(Tail(rows))
KeysOf(rows) == {<<rows[i].site, rows[i].date>> : i \in 1..Len(rows)}
RECURSIVE SortKeys(_)
SortKeys(K) ==
    IF K = {} THEN <<>>
    ELSE LET k == CHOOSE x \in K :
                    \A y \in K : x[1] < y[1] \/ (x[1] = y[1] /\ x[2] <= y[2])
         IN <<k>> \o SortKeys(K \ {k})
GroupByNone(rows) ==
    [i \in 1..Len(rows) |->
        [site |-> rows[i].site, date |-> rows[i].date, val |-> Frac(rows[i].val, 1)]]
GroupByFirst(rows) ==
    LET ks == SortKeys(KeysOf(rows))
    IN [i \in 1..Len(ks) |->
          LET g == SelectSeq(rows, LAMBDA r : <<r.site, r.date>> = ks[i])
          IN [site |-> ks[i][1], date |-> ks[i][2], val |-> Frac(g[1].val, 1)]]
GroupByMean(rows) ==
    LET ks == SortKeys(KeysOf(rows))
    IN [i \in 1..Len(ks) |->
          LET g == SelectSeq(rows, LAMBDA r : <<r.site, r.date>> = ks[i])
          IN [site |-> ks[i][1], date |-> ks[i][2],
              val |-> Frac(SumVals(g), Len(g))]]

\* The same aggregation on a table whose values are fractions already.
RECURSIVE SumFracs(_)
SumFracs(rows) ==
    IF rows = <<>> THEN <<0, 1>>
    ELSE LET a == Head(rows).val
             b == SumFracs(Tail(rows))
         IN  Frac(a[1] * b[2] + b[1] * a[2], a[2] * b[2])
MeanOfFracs(g) == LET s == SumFracs(g) IN Frac(s[1], s[2] * Len(g))
\* Grouping by the date alone: the sites of a day fall into one row.
GroupByDateOfMeans(rows) ==
    LET ks == SortKeys({<<1, rows[i].date>> : i \in 1..Len(rows)})
    IN [i \in 1..Len(ks) |->
          LET g == SelectSeq(rows, LAMBDA r : r.date = ks[i][2])
          IN [site |-> g[1].site, date |-> ks[i][2], val |-> MeanOfFracs(g)]]
GroupByMeanOfMeans(rows) ==
    LET ks == SortKeys(KeysOf(rows))
    IN [i \in 1..Len(ks) |->
          LET g == SelectSeq(rows, LAMBDA r : <<r.site, r.date>> = ks[i])
          IN [site |-> ks[i][1], date |-> ks[i][2], val |-> MeanOfFracs(g)]]

\* ---- the steps of extract_aod.extract_daily_from_h5
H5Start ==
    /\ ex_script = "aod"
    /\ ex_pc = "start"
    /\ IF NoFilesError(ex_script, ex_n) # ""
       THEN ExRaise(NoFilesError(ex_script, ex_n))
       ELSE ex_pc' = "loop" /\ UNCHANGED ex_err
    /\ UNCHANGED <<ex_script, ex_n, ex_i, ex_cur, all_data, ex_out, var_names,
                   m_plan, m_inputs, per_site_frames, m_sorted>>
    /\ ExFrame

\* One iteration of `for h5_file in files`.
H5File ==
    /\ ex_script = "aod"
    /\ ex_pc = "loop"
    /\ ex_i <= ex_n
    /\ \E f \in H5Inputs :
        LET reads == H5Reads(f)
        IN /\ ex_cur' = [kind |-> "h5", file |-> f, reads |-> reads]
           /\ IF ~f.located
              THEN ExRaise("KeyError") /\ UNCHANGED all_data
              ELSE IF H5Timestamp(f.name) = -1
              THEN ExRaise("ValueError: time data") /\ UNCHANGED all_data
              ELSE IF \E s \in Sites : reads[s].raw = Raised
              THEN ExRaise("ValueError: AOD shape") /\ UNCHANGED all_data
              ELSE /\ all_data' = all_data \o H5Samples(f, reads, 1)
                   /\ ex_pc' = "file_end"
                   /\ UNCHANGED ex_err
    /\ UNCHANGED <<ex_script, ex_n, ex_i, ex_out, var_names, m_plan, m_inputs,
                   per_site_frames, m_sorted>>
    /\ ExFrame

\* The loop moves to the next file; the locals of the iteration are gone.
H5NextFile ==
    /\ ex_script = "aod"
    /\ ex_pc = "file_end"
    /\ ex_i' = ex_i + 1
    /\ ex_cur' = NoCur
    /\ ex_pc' = "loop"
    /\ UNCHANGED <<ex_script, ex_err, ex_n, all_data, ex_out, var_names, m_plan,
                   m_inputs, per_site_frames, m_sorted>>
    /\ ExFrame

\* After the loop: DataFrame(all_data), groupby, mean, return.
H5Aggregate ==
    /\ ex_script = "aod"
    /\ ex_pc = "loop"
    /\ ex_i > ex_n
    /\ IF all_data = <<>>
       THEN ExRaise("KeyError") /\ UNCHANGED ex_out
       ELSE /\ ex_out' = GroupByMean(all_data)
            /\ ex_pc' = "done"
            /\ UNCHANGED ex_err
    /\ UNCHANGED <<ex_script, ex_n, ex_i, ex_cur, all_data, var_names, m_plan,
                   m_inputs, per_site_frames, m_sorted>>
    /\ ExFrame

\* ------------------------------------- merge_data.extract_daily_from_h5
\* The latitude and longitude arrays of a file as read (`lat = f[lat_path][:]`):
\* their shapes; element ix of lat holds MdLatList[ix[1] + 1], the latitude of
\* its first axis, and element ix of lon holds MdLonList[last of ix + 1].
MdLatList == <<40, 55, 35>>
MdLonList == <<75, 85, 50>>
MdCoordShapes ==
    { [lat |-> <<2>>, lon |-> <<2>>],
      [lat |-> <<2>>, lon |-> <<3>>],
      [lat |-> <<2, 3>>, lon |-> <<2, 3>>],
      [lat |-> <<2, 1>>, lon |-> <<1, 3>>] }
MdAodShapes == {<<2, 3>>, <<3, 2>>, <<3, 3>>, <<2>>, <<1, 2, 3>>}
\* Of the files without the datasets one stands for all.
MdH5Inputs ==
    [name : H5Names, located : {TRUE}, coords : MdCoordShapes,
     shape : MdAodShapes, base : {1}]
    \cup { [name |-> [m |-> FALSE, valid |-> FALSE, date |-> 0],
             located |-> FALSE, coords |-> [lat |-> <<2>>, lon |-> <<2>>],
             shape |-> <<2>>, base |-> 1] }

\* numpy broadcasting of two shapes (aligned at the last axis); <<>> stands for
\* "operands could not be broadcast together".
PadLeft(sh, n) == [k \in 1..n |-> IF k <= n - Len(sh) THEN 1 ELSE sh[k - (n - Len(sh))]]
Broadcast(a, b) ==
    LET n == IF Len(a) > Len(b) THEN Len(a) ELSE Len(b)
        pa == PadLeft(a, n)
        pb == PadLeft(b, n)
    IN IF \A k \in 1..n : pa[k] = pb[k] \/ pa[k] = 1 \/ pb[k] = 1
       THEN [k \in 1..n |-> IF pa[k] = 1 THEN pb[k] ELSE pa[k]]
       ELSE <<>>
\* The index into an array of shape sh of element ix of the broadcast result.
BroadcastIndex(sh, ix) ==
    [k \in 1..Len(sh) |->
        IF sh[k] = 1 THEN 0 ELSE ix[k + (Len(ix) - Len(sh))]]
\* np.unravel_index for a shape of one or two axes.
Unravel(k, shape) == IF Len(shape) = 1 THEN <<k>> ELSE unravel_index(k, shape)
\* dist = haversine(s_lat, s_lon, lat, lon), flattened in C order.
MdDistFlat(s, c, B) ==
    LET size == IF Len(B) = 1 THEN B[1] ELSE B[1] * B[2]
    IN [k \in 1..size |->
          LET ix == Unravel(k - 1, B)
              li == BroadcastIndex(c.lat, ix)
              lo == BroadcastIndex(c.lon, ix)
          IN haversine(s[1], s[2], MdLatList[li[1] + 1],
                       MdLonList[lo[Len(lo)] + 1])]
\* min_idx = np.unravel_index(dist.argmin(), dist.shape)
MdMinIdx(s, c) ==
    LET B == Broadcast(c.lat, c.lon) IN Unravel(argmin(MdDistFlat(s, c, B)), B)
\* site_aod = aod[min_idx]: "IndexError" when min_idx has more entries than
\* the array has axes or one of them is out of range, "array" when it has
\* fewer (a sub-array is read), else the element.
MdRead(f, ix) ==
    IF Len(ix) > Len(f.shape) \/ \E k \in 1..Len(ix) : ix[k] >= f.shape[k]
    THEN "IndexError"
    ELSE IF Len(ix) < Len(f.shape) THEN "array"
    ELSE "element"
\* The value of a sample: ArrayVal for a sub-array.
ArrayVal == -1
MdValue(f, ix) ==
    IF MdRead(f, ix) = "array" THEN ArrayVal
    ELSE f.base + LinIndex(ix, f.shape, Len(f.shape))
RECURSIVE MdSamples(_, _)
\* The rows appended for file f, site by site, up to the first site whose read
\* raises.
MdSamples(f, s) ==
    IF s \notin Sites THEN <<>>
    ELSE LET ix == MdMinIdx(H5SiteCoords[s], f.coords)
         IN IF MdRead(f, ix) = "IndexError" THEN <<>>
            ELSE <<[site |-> s, date |-> H5Timestamp(f.name),
                    val |-> MdValue(f, ix)]>> \o MdSamples(f, s + 1)

MdH5Start ==
    /\ ex_script = "md_h5"
    /\ ex_pc = "start"
    /\ IF NoFilesError(ex_script, ex_n) # ""
       THEN ExRaise(NoFilesError(ex_script, ex_n))
       ELSE ex_pc' = "loop" /\ UNCHANGED ex_err
    /\ UNCHANGED <<ex_script, ex_n, ex_i, ex_cur, all_data, ex_out, var_names,
                   m_plan, m_inputs, per_site_frames, m_sorted>>
    /\ ExFrame

\* One iteration of `for h5_file in files`.
MdH5File ==
    /\ ex_script = "md_h5"
    /\ ex_pc = "loop"
    /\ ex_i <= ex_n
    /\ \E f \in MdH5Inputs :
        LET B == Broadcast(f.coords.lat, f.coords.lon)
        IN /\ ex_cur' = [kind |-> "md_h5", file |-> f]
           /\ IF ~f.located
              THEN ExRaise("KeyError") /\ UNCHANGED all_data
              ELSE IF H5Timestamp(f.name) = -1
              THEN ExRaise("ValueError: time data") /\ UNCHANGED all_data
              ELSE IF B = <<>>
              THEN ExRaise("ValueError: broadcast") /\ UNCHANGED all_data
              ELSE /\ all_data' = all_data \o MdSamples(f, 1)
                   /\ IF Len(MdSamples(f, 1)) < Cardinality(Sites)
                      THEN ExRaise("IndexError")
                      ELSE ex_pc' = "file_end" /\ UNCHANGED ex_err
    /\ UNCHANGED <<ex_script, ex_n, ex_i, ex_out, var_names, m_plan, m_inputs,
                   per_site_frames, m_sorted>>
    /\ ExFrame

MdH5NextFile ==
    /\ ex_script = "md_h5"
    /\ ex_pc = "file_end"
    /\ ex_i' = ex_i + 1
    /\ ex_cur' = NoCur
    /\ ex_pc' = "loop"
    /\ UNCHANGED <<ex_script, ex_err, ex_n, all_data, ex_out, var_names, m_plan,
                   m_inputs, per_site_frames, m_sorted>>
    /\ ExFrame

\* After the loop: groupby(["site", "date"]).mean().  The mean of a column
\* that holds sub-arrays depends on the pandas version: a TypeError, or the
\* column is left out of the result.
MdH5Aggregate ==
    /\ ex_script = "md_h5"
    /\ ex_pc = "loop"
    /\ ex_i > ex_n
    /\ IF all_data = <<>>
       THEN ExRaise("KeyError") /\ UNCHANGED ex_out
       ELSE IF \E k \in 1..Len(all_data) : all_data[k].val = ArrayVal
       THEN \/ ExRaise("TypeError") /\ UNCHANGED ex_out
            \/ /\ ex_out' = [k \in 1..Len(SortKeys(KeysOf(all_data))) |->
                               [site |-> SortKeys(KeysOf(all_data))[k][1],
                                date |-> SortKeys(KeysOf(all_data))[k][2],
                                val |-> <<0, 0>>]]
               /\ ex_pc' = "done"
               /\ UNCHANGED ex_err
       ELSE /\ ex_out' = GroupByMean(all_data)
            /\ ex_pc' = "done"
            /\ UNCHANGED ex_err
    /\ UNCHANGED <<ex_script, ex_n, ex_i, ex_cur, all_data, var_names, m_plan,
                   m_inputs, per_site_frames, m_sorted>>
    /\ ExFrame

\* ------------------------- extract_merra.extract_daily_from_merra_folder
\* Largest number of *.nc4 files in the folder.
MaxNcFiles == 2
\* A missing value (NaN) in a MERRA frame.
NaN == -1000000
\* The lat and lon coordinates of the MERRA grid.
NcLat == <<40, 55>>
NcLon == <<75, 85>>
\* The variable sets requested from the extraction (var_names).
ReqSets == {{"RH2M"}, {"RH2M", "T2M"}, {"T2M", "PS"}}
\* The data_vars of a file.
NcVarSets ==
    { {"T2M"}, {"PS", "QV2M"}, {"T2M", "PS", "QV2M"},
      {"T2M", "PS", "QV2M", "RH2M"} }
\* The time coordinate of a file, in hours since the epoch.
NcTimeLists == {<<0, 1>>, <<1, 48>>}
\* The fields of a file at the sites' cells: QV2M in g/kg (q = 1000 Q), T2M in
\* hundredths of a kelvin, PS in hPa (p = P / 100), and RH2M in percent when
\* the file has it.
NcAirs ==
    { [q |-> -1, T |-> 27315, p |-> 1013, rh |-> 40],
      [q |-> 10, T |-> 29815, p |-> 1013, rh |-> 40],
      [q |-> 30, T |-> 27315, p |-> 1013, rh |-> 40] }
\* The files: every variable set with one time and one state of the air, and
\* every time coordinate and state of the air with the variables the RH
\* synthesis needs.
NcInputs ==
    [vars : NcVarSets, times : {<<0>>},
     air : {[q |-> -1, T |-> 27315, p |-> 1013, rh |-> 40]}]
    \cup [vars : {{"T2M", "PS", "QV2M"}}, times : NcTimeLists, air : NcAirs]
deps_for_rh == {"QV2M", "T2M", "PS"}

\* What lines 57-82 decide from the first file: "" or the error, the
\* variables to load, whether RH2M is synthesized, and site -> (ilat, ilon).
MerraPlan(first, requested) ==
    LET need_compute_rh == "RH2M" \in requested /\ "RH2M" \notin first.vars
        needed_vars == requested \cup (IF need_compute_rh THEN deps_for_rh ELSE {})
        missing_vars == needed_vars \ first.vars
    IN [raises |-> missing_vars # {} /\ \A v \in requested : v \notin first.vars,
        avail |-> needed_vars \cap first.vars,
        can_rh |-> need_compute_rh /\ deps_for_rh \subseteq first.vars,
        site_idx |-> [s \in Sites |->
                        <<nearest_index(NcLat, H5SiteCoords[s][1]),
                          nearest_index(NcLon, H5SiteCoords[s][2])>>]]

\* exp(17.67 * Tc / (Tc + 243.5)) in thousandths, Tc in hundredths of a degree.
Exp1000(Tc) ==
    CASE Tc = 0 -> 1000
      [] Tc = 2500 -> 5182
Clip(x, lo, hi) == IF x < lo THEN lo ELSE IF x > hi THEN hi ELSE x
\* The saturation pressure of line 99, which line 101 overwrites.
SatPressureLine99(Tc) == (6112 * Exp1000(Tc) * 10) \div 10000
\* es = 6.112 * 100.0 * np.exp(...), in Pa.
SatPressure(Tc) == (6112 * Exp1000(Tc)) \div 10000
\* _compute_rh2m for one row, in percent (integer part): e in Pa from
\* q * p / (0.622 + 0.378 * q), rh = clip(100 * e / es, 0, 100).
compute_rh2m(q, T, p) ==
    LET e == (50000 * q * p) \div (311000 + 189 * q)
        Tc == T - 27315
        es == SatPressure(Tc)
        rh == (100 * e) \div es
    IN Clip(rh, 0, 100)

\* The rows a file contributes to a site's frames: df after lines 116-127.
NcFrame(f, plan, requested) ==
    LET small_vars == plan.avail \cap f.vars
        synth == plan.can_rh /\ "RH2M" \in requested /\ "RH2M" \notin small_vars
        columns == small_vars \cup (IF synth THEN {"RH2M"} ELSE {})
        keep_cols == requested \cap columns
        value(c) ==
            CASE c = "T2M" -> f.air.T
              [] c = "PS" -> f.air.p
              [] c = "QV2M" -> f.air.q
              [] c = "RH2M" ->
                    IF "RH2M" \in small_vars THEN f.air.rh
                    ELSE IF deps_for_rh \subseteq small_vars
                    THEN compute_rh2m(f.air.q, f.air.T, f.air.p)
                    ELSE NaN
    IN [k \in 1..Len(f.times) |->
          [time |-> f.times[k], vals |-> [c \in keep_cols |-> value(c)]]]

RECURSIVE ConcatRows(_)
\* pd.concat(frames, ignore_index=True), before the columns are aligned.
ConcatRows(frames) ==
    IF frames = <<>> THEN <<>> ELSE Head(frames) \o ConcatRows(Tail(frames))
\* The concatenated frame: every row has every column, NaN where its own frame
\* had none.
Aligned(rows) ==
    LET cols == UNION {DOMAIN rows[k].vals : k \in 1..Len(rows)}
    IN [k \in 1..Len(rows) |->
          [time |-> rows[k].time,
           vals |-> [c \in cols |->
                       IF c \in DOMAIN rows[k].vals THEN rows[k].vals[c] ELSE NaN]]]
RECURSIVE SortedOrders(_, _)
\* df.sort_values("time"): the default sort is not stable, so rows of equal
\* time come out in any order.  The set of possible results, as sequences of
\* the positions in K.
SortedOrders(rows, K) ==
    IF K = {} THEN {<<>>}
    ELSE UNION { {<<k>> \o rest : rest \in SortedOrders(rows, K \ {k})}
                 : k \in {x \in K : \A y \in K : rows[x].time <= rows[y].time} }
\* drop_duplicates(subset=["time"]): the first row of each time is kept.
DropDupTimeNone(rows) == rows
DropDupTime(rows) ==
    KeepIdx(rows, {k \in 1..Len(rows) :
                     \A j \in 1..(k - 1) : rows[j].time # rows[k].time}, 1)
RECURSIVE SumSeq(_)
SumSeq(s) == IF s = <<>> THEN 0 ELSE Head(s) + SumSeq(Tail(s))
\* The mean of no value at all (NaN), as a fraction.
NaNMean == <<0, 0>>
\* The mean of a column over rows, NaN skipped; NaN when nothing is left.
ColMean(rows, c) ==
    LET xs == SelectSeq([k \in 1..Len(rows) |-> rows[k].vals[c]],
                        LAMBDA x : x # NaN)
    IN IF xs = <<>> THEN NaNMean ELSE Frac(SumSeq(xs), Len(xs))
\* set_index("time").resample("1D").mean(): one row per calendar day from the
\* first to the last day of the frame.
ResampleDaily(rows, site) ==
    LET days == {DateOf(rows[k].time) : k \in 1..Len(rows)}
        cols == DOMAIN rows[1].vals
    IN [i \in 1..(Max(days) - Min(days) + 1) |->
          LET d == Min(days) + i - 1
              onDay == SelectSeq(rows, LAMBDA r : DateOf(r.time) = d)
          IN [site |-> site, date |-> d,
              vals |-> [c \in cols |-> ColMean(onDay, c)]]]

\* Lines 43-86: the folder is listed and the first file inspected.
MStart ==
    /\ ex_script = "merra"
    /\ ex_pc = "start"
    /\ IF NoFilesError(ex_script, ex_n) # ""
       THEN /\ ExRaise(NoFilesError(ex_script, ex_n))
            /\ UNCHANGED <<m_plan, m_inputs, per_site_frames>>
       ELSE \E first \in NcInputs :
            /\ m_inputs' = <<first>>
            /\ IF MerraPlan(first, var_names).raises
               THEN ExRaise("RuntimeError") /\ UNCHANGED <<m_plan, per_site_frames>>
               ELSE /\ m_plan' = MerraPlan(first, var_names)
                    /\ per_site_frames' = [s \in Sites |-> <<>>]
                    /\ ex_pc' = "loop"
                    /\ UNCHANGED ex_err
    /\ UNCHANGED <<ex_script, ex_n, ex_i, ex_cur, all_data, ex_out, var_names,
                   m_sorted>>
    /\ ExFrame

\* One iteration of `for p in files` (the first file is opened again).
MFile ==
    /\ ex_script = "merra"
    /\ ex_pc = "loop"
    /\ ex_i <= ex_n
    /\ \E f \in (IF ex_i = 1 THEN {m_inputs[1]} ELSE NcInputs) :
        /\ m_inputs' = IF ex_i = 1 THEN m_inputs ELSE Append(m_inputs, f)
        /\ IF m_plan.avail \cap f.vars = {}
           THEN UNCHANGED per_site_frames
           ELSE per_site_frames' =
                    [s \in Sites |->
                        Append(per_site_frames[s], NcFrame(f, m_plan, var_names))]
    /\ ex_i' = ex_i + 1
    /\ UNCHANGED <<ex_script, ex_pc, ex_err, ex_n, ex_cur, all_data, ex_out,
                   var_names, m_plan, m_sorted>>
    /\ ExFrame

\* One iteration of `for site, frames in per_site_frames.items()`; ex_out
\* collects all_sites.
MBuildSite ==
    /\ ex_script = "merra"
    /\ ex_pc = "loop"
    /\ ex_i > ex_n
    /\ Len(m_sorted) < Cardinality(Sites)
    /\ LET site == Len(m_sorted) + 1
           frame == Aligned(ConcatRows(per_site_frames[site]))
       IN IF per_site_frames[site] = <<>>
          THEN m_sorted' = Append(m_sorted, <<>>) /\ UNCHANGED ex_out
          ELSE \E ord \in SortedOrders(frame, 1..Len(frame)) :
                LET srt == [k \in 1..Len(frame) |-> frame[ord[k]]]
                IN /\ m_sorted' = Append(m_sorted, srt)
                   /\ ex_out' = ex_out \o ResampleDaily(DropDupTime(srt), site)
    /\ UNCHANGED <<ex_script, ex_pc, ex_err, ex_n, ex_i, ex_cur, all_data,
                   var_names, m_plan, m_inputs, per_site_frames>>
    /\ ExFrame

\* Lines 146-150.
MReturn ==
    /\ ex_script = "merra"
    /\ ex_pc = "loop"
    /\ ex_i > ex_n
    /\ Len(m_sorted) = Cardinality(Sites)
    /\ IF ex_out = <<>>
       THEN ExRaise("RuntimeError")
       ELSE ex_pc' = "done" /\ UNCHANGED ex_err
    /\ UNCHANGED <<ex_script, ex_n, ex_i, ex_cur, all_data, ex_out, var_names,
                   m_plan, m_inputs, per_site_frames, m_sorted>>
    /\ ExFrame

\* ------------------------- merge_data.extract_daily_from_merra_folder
\* merra_vars of merge_data.py.
MdMerraVars == {"T2M", "RH2M", "U2M", "V2M", "PS"}
\* ds.sel(..., method="nearest") on one coordinate: the coordinate value
\* closest to `value`, the larger one when two are equally close.
SelNearest(coord, value) ==
    LET dist == Min({Abs(coord[i] - value) : i \in 1..Len(coord)})
    IN  Max({coord[i] : i \in {j \in 1..Len(coord) : Abs(coord[j] - value) = dist}})
\* The hourly frame of site s from the combined dataset ds: the available
\* variables and the coordinates lat and lon of the selected cell, which
\* to_dataframe().reset_index() turns into columns.
MdMerraFrame(ds, s) ==
    LET avail_vars == MdMerraVars \cap ds.vars
    IN [k \in 1..Len(ds.times) |->
          [time |-> ds.times[k],
           vals |-> [c \in avail_vars \cup {"lat", "lon"} |->
                       CASE c = "T2M" -> ds.air.T
                         [] c = "PS" -> ds.air.p
                         [] c = "RH2M" -> ds.air.rh
                         [] c = "lat" -> SelNearest(NcLat, H5SiteCoords[s][1])
                         [] c = "lon" -> SelNearest(NcLon, H5SiteCoords[s][2])]]]
RECURSIVE MdMerraDaily(_, _)
MdMerraDaily(ds, s) ==
    IF s \notin Sites THEN <<>>
    ELSE ResampleDaily(MdMerraFrame(ds, s), s) \o MdMerraDaily(ds, s + 1)
\* The whole function: the files are opened as one dataset.
MdMerraExtract ==
    /\ ex_script = "md_merra"
    /\ ex_pc = "start"
    /\ IF NoFilesError(ex_script, ex_n) # ""
       THEN ExRaise(NoFilesError(ex_script, ex_n)) /\ UNCHANGED ex_out
       ELSE \/ ExRaise("RuntimeError") /\ UNCHANGED ex_out
            \/ \E ds \in NcInputs :
                IF MdMerraVars \cap ds.vars = {}
                THEN ExRaise("RuntimeError") /\ UNCHANGED ex_out
                ELSE /\ ex_out' = MdMerraDaily(ds, 1)
                     /\ ex_pc' = "done"
                     /\ UNCHANGED ex_err
    /\ UNCHANGED <<ex_script, ex_n, ex_i, ex_cur, all_data, var_names, m_plan,
                   m_inputs, per_site_frames, m_sorted>>
    /\ ExFrame

\* ---- the specification of the extraction functions
ExScripts == {"aod", "md_h5", "merra", "md_merra"}
MaxFilesOf(script) ==
    IF script \in {"aod", "md_h5"} THEN MaxH5Files ELSE MaxNcFiles
ExInit ==
    /\ files = {}
    /\ MergeIdle
    /\ MdIdle
    /\ NearIdle
    /\ FindIdle
    /\ FetchIdle
    /\ ex_script \in ExScripts
    /\ ex_pc = "start"
    /\ ex_err = ""
    /\ ex_n \in 0..MaxFilesOf(ex_script)
    /\ ex_i = 1
    /\ ex_cur = NoCur
    /\ all_data = <<>>
    /\ ex_out = <<>>
    /\ var_names \in (IF ex_script = "merra" THEN ReqSets ELSE {{}})
    /\ m_plan = NoPlan
    /\ m_inputs = <<>>
    /\ per_site_frames = <<>>
    /\ m_sorted = <<>>

ExNext ==
    \/ H5Start \/ H5File \/ H5NextFile \/ H5Aggregate
    \/ MdH5Start \/ MdH5File \/ MdH5NextFile \/ MdH5Aggregate
    \/ MStart \/ MFile \/ MBuildSite \/ MReturn
    \/ MdMerraExtract

SpecExtract == ExInit /\ [][ExNext]_vars

\* ---- claims about extract_aod.extract_daily_from_h5
H5Cur == ex_script = "aod" /\ ex_cur # NoCur
\* The current file got as far as the loop over the sites.
H5Picked == H5Cur /\ ex_cur.file.located /\ H5Timestamp(ex_cur.file.name) # -1
GridShape(f) == <<Len(f.lat), Len(f.lon)>>
\* The index into the data array that the sentence about the value
\* extraction names for resolved index (ii, jj), grid shape G and data shape
\* sh; Raised where it names the error.
StatedIndex(ii, jj, sh, G) ==
    IF sh = G THEN <<ii, jj>>
    ELSE IF sh = <<G[2], G[1]>> THEN <<jj, ii>>
    ELSE IF Len(sh) > 1 /\ sh[1] = 1
    THEN (IF Tail(sh) = G THEN <<0, ii, jj>>
          ELSE IF Tail(sh) = <<G[2], G[1]>> THEN <<0, jj, ii>>
          ELSE Raised)
    ELSE Raised

\* C11: for every site, the sample of the current file is read at [row, col]
\* when the data array has the grid's shape, at [col, row] when it has the
\* transposed shape, from the array without its leading singleton dimension
\* when neither holds and there is one, and otherwise the extraction fails
\* and no sample of the file is recorded.
C11_PickByShape ==
    H5Picked =>
        \A s \in Sites :
            LET r == ex_cur.reads[s]
                st == StatedIndex(r.ij[1], r.ij[2], ex_cur.file.shape,
                                  GridShape(ex_cur.file))
            IN /\ r.raw = st
               /\ st = Raised =>
                    /\ ex_pc = "error"
                    /\ Len(all_data) = (ex_i - 1) * Cardinality(Sites)

\* C20: a file whose name matches the date-token pattern but whose token is
\* not a valid date does not abort the extraction: it is skipped and the loop
\* goes on.
C20_BadTimestampSkipped ==
    (H5Cur /\ ex_cur.file.located /\ ex_cur.file.name.m
           /\ ~ex_cur.file.name.valid)
        => ex_pc # "error"

RECURSIVE SumOfSamples(_)
SumOfSamples(S) ==
    IF S = {} THEN 0
    ELSE LET i == CHOOSE x \in S : TRUE
         IN all_data[i].val + SumOfSamples(S \ {i})
SamplesOf(s, d) ==
    {i \in 1..Len(all_data) : all_data[i].site = s /\ all_data[i].date = d}
RowsOf(s, d) ==
    {k \in 1..Len(ex_out) : ex_out[k].site = s /\ ex_out[k].date = d}

\* C13: when extract_aod.extract_daily_from_h5 returns, every (site, date)
\* with at least one sample has exactly one output row, whose value is the sum
\* of all the samples of that site and date divided by their number, and a
\* (site, date) without a sample has no row.
C13_FileGrainedMean ==
    (ex_script = "aod" /\ ex_pc = "done") =>
        \A s \in Sites, d \in Dates :
            IF SamplesOf(s, d) = {} THEN RowsOf(s, d) = {}
            ELSE /\ Cardinality(RowsOf(s, d)) = 1
                 /\ \A k \in RowsOf(s, d) :
                        ex_out[k].val[1] * Cardinality(SamplesOf(s, d))
                            = ex_out[k].val[2] * SumOfSamples(SamplesOf(s, d))
\* Two files of the same date gave a site two different samples, and the
\* table was returned.
C13_Witness ==
    /\ ex_script = "aod"
    /\ ex_pc = "done"
    /\ \E i, j \in 1..Len(all_data) :
        /\ i # j
        /\ all_data[i].site = all_data[j].site
        /\ all_data[i].date = all_data[j].date
        /\ all_data[i].val # all_data[j].val

\* C24: the daily table that extract_daily_from_h5 returns is a fixed point of
\* the aggregation: grouping it again by (site, date) and taking the mean
\* gives the same keys and, for each key, the same value.
C24_AggregationIdempotent ==
    (ex_script = "aod" /\ ex_pc = "done") =>
        LET again == GroupByMeanOfMeans(ex_out)
        IN  /\ KeysOf(again) = KeysOf(ex_out)
            /\ \A i \in 1..Len(again) : \A j \in 1..Len(ex_out) :
                  (again[i].site = ex_out[j].site /\ again[i].date = ex_out[j].date)
                      => again[i].val = ex_out[j].val
            /\ Len(again) = Len(ex_out)
\* The returned table has two sites on one day, and one of its values is the
\* mean of two different samples and no whole number.
C24_Witness ==
    /\ ex_script = "aod"
    /\ ex_pc = "done"
    /\ \E i, j \in 1..Len(ex_out) :
          /\ ex_out[i].site # ex_out[j].site
          /\ ex_out[i].date = ex_out[j].date
          /\ ex_out[i].val[2] > 1

\* C27 (as claimed): every row of the daily table returned by
\* extract_daily_from_merra_folder has at least one hourly sample of its site
\* on its date; a day without a sample between the first and the last sampled
\* day of a site has no row.
C27_RowsBackedBySamples ==
    (ex_script = "merra" /\ ex_pc = "done") =>
        \A i \in 1..Len(ex_out) :
            \E k \in 1..Len(m_sorted[ex_out[i].site]) :
                DateOf(m_sorted[ex_out[i].site][k].time) = ex_out[i].date

\* ---- claims about merge_data.extract_daily_from_h5
MdH5Cur == ex_script = "md_h5" /\ ex_cur # NoCur
\* The coordinate arrays of the file form a common 2D grid.
MdCommonGrid(f) == Len(Broadcast(f.coords.lat, f.coords.lon)) = 2
MdShapeFits(f) ==
    LET B == Broadcast(f.coords.lat, f.coords.lon)
    IN f.shape = B \/ f.shape = <<B[2], B[1]>>

\* C12: a file whose latitude/longitude arrays do not form a common 2D grid,
\* or whose data array has neither the grid's shape nor its transpose, makes
\* merge_data.extract_daily_from_h5 raise, and no sample of it is recorded.
C12_BadShapesRejected ==
    (MdH5Cur /\ ex_cur.file.located /\ H5Timestamp(ex_cur.file.name) # -1
             /\ (~MdCommonGrid(ex_cur.file) \/ ~MdShapeFits(ex_cur.file)))
        => /\ ex_pc = "error"
           /\ Len(all_data) = (ex_i - 1) * Cardinality(Sites)

\* ---- claims about extract_merra.extract_daily_from_merra_folder
MerraDone == ex_script = "merra" /\ ex_pc = "done"
\* The rows of site s that survive: the first of each timestamp in the sorted
\* frame.
KeptRows(s) ==
    {k \in 1..Len(m_sorted[s]) :
        \A j \in 1..(k - 1) : m_sorted[s][j].time # m_sorted[s][k].time}
RECURSIVE SumOfColumn(_, _, _)
SumOfColumn(s, c, K) ==
    IF K = {} THEN 0
    ELSE LET k == CHOOSE x \in K : TRUE
         IN m_sorted[s][k].vals[c] + SumOfColumn(s, c, K \ {k})
\* The number of rows of seq that equal r.
CountOf(seq, r) == Cardinality({k \in 1..Len(seq) : seq[k] = r})

\* C14: when extract_merra.extract_daily_from_merra_folder returns, the sorted
\* frame of every site holds exactly the rows collected from the files, in
\* time order; of each timestamp only its first row counts; and every daily
\* value of the site is the sum of the counted, non-missing samples of that
\* calendar day divided by their number, so that a timestamp present in two
\* files is counted once.
C14_SeriesGrainedMean ==
    MerraDone =>
        \A s \in Sites :
            LET frame == Aligned(ConcatRows(per_site_frames[s]))
                srt == m_sorted[s]
            IN /\ Len(srt) = Len(frame)
               /\ \A k \in 1..Len(frame) :
                      CountOf(srt, frame[k]) = CountOf(frame, frame[k])
               /\ \A k \in 1..(Len(srt) - 1) : srt[k].time <= srt[k + 1].time
               /\ \A r \in {ex_out[i] : i \in {j \in 1..Len(ex_out) : ex_out[j].site = s}} :
                    \A c \in DOMAIN r.vals :
                        LET K == {k \in KeptRows(s) :
                                    /\ DateOf(srt[k].time) = r.date
                                    /\ srt[k].vals[c] # NaN}
                        IN IF K = {} THEN r.vals[c] = NaNMean
                           ELSE /\ r.vals[c] # NaNMean
                                /\ r.vals[c][1] * Cardinality(K)
                                     = r.vals[c][2] * SumOfColumn(s, c, K)
\* Two files gave a site rows of the same timestamp with different values,
\* that day has a further timestamp, and the table was returned.
C14_Witness ==
    /\ MerraDone
    /\ \E i, j, k \in 1..Len(m_sorted[1]) :
        /\ i # j
        /\ m_sorted[1][i].time = m_sorted[1][j].time
        /\ m_sorted[1][i].vals # m_sorted[1][j].vals
        /\ m_sorted[1][k].time # m_sorted[1][i].time
        /\ DateOf(m_sorted[1][k].time) = DateOf(m_sorted[1][i].time)

\* C17: when the extraction returns, every requested variable that is present
\* in at least one file of the folder is a column of the daily output with at
\* least one value.
C17_VariableOfAnyFileKept ==
    MerraDone =>
        \A v \in var_names :
            (\E k \in 1..Len(m_inputs) : v \in m_inputs[k].vars) =>
                \E i \in 1..Len(ex_out) :
                    v \in DOMAIN ex_out[i].vals /\ ex_out[i].vals[v] # NaNMean

\* C18: whenever RH2M is requested, no file has it and every file has QV2M,
\* T2M and PS, the extraction does not fail, and the table it returns has an
\* RH2M column with values.
C18_RhSynthesizedForAnyRequest ==
    (/\ ex_script = "merra"
     /\ "RH2M" \in var_names
     /\ m_inputs # <<>>
     /\ \A k \in 1..Len(m_inputs) :
            "RH2M" \notin m_inputs[k].vars /\ deps_for_rh \subseteq m_inputs[k].vars)
        => /\ ex_pc # "error"
           /\ ex_pc = "done" =>
                \E i \in 1..Len(ex_out) :
                    /\ "RH2M" \in DOMAIN ex_out[i].vals
                    /\ ex_out[i].vals["RH2M"] # NaNMean

\* The relative humidity the formula of the RH synthesis gives, in percent
\* (integer part): clamp(100 * e / es, 0, 100), e = Q P / (0.622 + 0.378 Q),
\* es = 611.2 exp(17.67 Tc / (Tc + 243.5)).
StatedRh(a) ==
    LET e == (500 * (100 * a.p) * a.q) \div (311000 + 189 * a.q)
        es == (6112 * Exp1000(a.T - 27315)) \div 10000
        x == (100 * e) \div es
    IN IF x < 0 THEN 0 ELSE IF x > 100 THEN 100 ELSE x
\* No file was passed over so far (frame k comes from file k), and file k had
\* its RH2M synthesized from values.
Synthesized(k) ==
    /\ \A s \in Sites : Len(per_site_frames[s]) = ex_i - 1
    /\ m_plan.can_rh
    /\ "RH2M" \in var_names
    /\ deps_for_rh \subseteq m_inputs[k].vars

\* C19: every relative-humidity value synthesized for a file equals
\* clamp(100 e / es, 0, 100) computed from the file's Q, T and P, and lies in
\* [0, 100].
C19_RhFormula ==
    (ex_script = "merra" /\ ex_pc \in {"loop", "done"}) =>
        \A s \in Sites :
            \A k \in 1..Len(per_site_frames[s]) :
                \A j \in 1..Len(per_site_frames[s][k]) :
                    LET f == m_inputs[k]
                        row == per_site_frames[s][k][j]
                    IN Synthesized(k) =>
                        /\ row.vals["RH2M"] = StatedRh(f.air)
                        /\ row.vals["RH2M"] >= 0
                        /\ row.vals["RH2M"] <= 100
\* Frames with synthesized values at the lower end, inside and at the upper
\* end of the range were collected.
C19_Witness ==
    /\ ex_script = "merra"
    /\ ex_pc = "done"
    /\ Len(per_site_frames[1]) = 2
    /\ Synthesized(1)
    /\ Synthesized(2)
    /\ per_site_frames[1][1][1].vals["RH2M"] \in {0, 100}
    /\ per_site_frames[1][2][1].vals["RH2M"] \in 1..99

\* ---- claims about the extraction functions together
\* C15: the daily table returned by extract_aod.extract_daily_from_h5 or by
\* extract_merra.extract_daily_from_merra_folder has no two rows with the
\* same site and date.
C15_UniqueSiteDate ==
    (ex_script \in {"aod", "merra"} /\ ex_pc = "done") =>
        \A i, j \in 1..Len(ex_out) :
            (ex_out[i].site = ex_out[j].site /\ ex_out[i].date = ex_out[j].date)
                => i = j
\* A table was returned for inputs that gave one site several samples of one
\* day, and it has rows of that day for both sites.
C15_Witness ==
    /\ ex_pc = "done"
    /\ \E i, j \in 1..Len(ex_out) :
        ex_out[i].site # ex_out[j].site /\ ex_out[i].date = ex_out[j].date
    /\ \/ /\ ex_script = "aod"
          /\ \E i, j \in 1..Len(all_data) :
                /\ i # j
                /\ all_data[i].site = all_data[j].site
                /\ all_data[i].date = all_data[j].date
       \/ /\ ex_script = "merra"
          /\ \E i, j \in 1..Len(m_sorted[1]) :
                /\ i # j
                /\ DateOf(m_sorted[1][i].time) = DateOf(m_sorted[1][j].time)

\* C16: with no matching file in the source folder, each of the four
\* extraction functions ends with its no-files error (ValueError for
\* merge_data's MERRA extraction, FileNotFoundError for the others) and
\* returns no table.
C16_NoFilesRaises ==
    (ex_script \in ExScripts /\ ex_n = 0 /\ ex_pc # "start") =>
        /\ ex_pc = "error"
        /\ ex_err = (IF ex_script = "md_merra" THEN "ValueError"
                     ELSE "FileNotFoundError")
        /\ ex_out = <<>>
\* An extraction was started on an empty folder and has ended.
C16_Witness ==
    /\ ex_script \in ExScripts
    /\ ex_n = 0
    /\ ex_pc = "error"

\* An aerosol optical depth is not negative.
AodPlausible(v) == v >= 0

\* C21: the daily table extract_aod.extract_daily_from_h5 returns is the one
\* computed from the plausible samples alone: a sample outside the range of
\* the variable, such as a fill value read at the nearest cell, is dropped
\* before the aggregation and changes no row.
C21_ImplausibleDropped ==
    (ex_script = "aod" /\ ex_pc = "done") =>
        ex_out = GroupByMean(SelectSeq(all_data, LAMBDA r : AodPlausible(r.val)))

\* =========================================================================
\* extract_aod._find_dataset: the search for a dataset in the group hierarchy
\* of a file.  Names are sequences of characters.
\* =========================================================================
\* Largest number of objects below the root group.
MaxNodes == 3
\* The hints of the call for the data array: name_hints and contains.
NameHints == {<<"A", "O", "T">>}
ContainsHints == {<<"a", "o", "d">>}
\* The names of the objects of a file.
NodeNames == {<<"a", "o", "t">>, <<"x", "A", "O", "D">>, <<"l", "a", "t">>}
\* str.lower() on one character and on a name.
LowerChar(ch) ==
    CASE ch = "A" -> "a"
      [] ch = "O" -> "o"
      [] ch = "T" -> "t"
      [] ch = "D" -> "d"
      [] OTHER -> ch
lower(name) == [i \in 1..Len(name) |-> LowerChar(name[i])]
\* `c in s` for strings.
IsSubstring(c, s) ==
    \E i \in 0..(Len(s) - Len(c)) : SubSeq(s, i + 1, i + Len(c)) = c
\* The condition of line 53 on the key k of a dataset.
MatchesCaseSensitive(k, name_hints, contains) ==
    \/ \E h \in name_hints : h = k
    \/ \E c \in contains : IsSubstring(c, k)
Matches(k, name_hints, contains) ==
    \/ \E h \in name_hints : lower(h) = lower(k)
    \/ \E c \in contains : IsSubstring(c, lower(k))

\* The objects below the root (object 0, a group) are numbered 1..n; an
\* object's parent is a group with a smaller number, the keys of a group are
\* its children in the order of their numbers, and no two children of a group
\* have the same name.
Trees(n) ==
    UNION { {t \in [1..k -> [parent : 0..(k - 1), dataset : BOOLEAN, name : NodeNames]] :
                /\ \A c \in 1..k :
                      /\ t[c].parent < c
                      /\ t[c].parent # 0 => ~t[t[c].parent].dataset
                /\ \A c, e \in 1..k :
                      (c # e /\ t[c].parent = t[e].parent) => t[c].name # t[e].name}
            : k \in 0..n }
RECURSIVE PathOf(_, _)
\* child_path: the names from the root down to object c.
PathOf(t, c) == IF c = 0 THEN <<>> ELSE Append(PathOf(t, t[c].parent), t[c].name)
\* obj.keys() as the sequence of the children of obj.
Children(t, obj) ==
    KeepIdx([c \in 1..Len(t) |-> c], {c \in 1..Len(t) : t[c].parent = obj}, 1)

FindFrame == UNCHANGED <<files, mergeVars, mdVars, nearVars, exVars, fetchVars>>

\* One iteration of `while stack`: an object is popped and its keys are gone
\* through in order; the first dataset whose key matches is returned, the
\* children before it that are no datasets having been pushed.
FindPop ==
    /\ fd_pc = "run"
    /\ fd_stack # <<>>
    /\ LET obj == fd_stack[Len(fd_stack)]
           rest == SubSeq(fd_stack, 1, Len(fd_stack) - 1)
           kids == Children(fd_tree, obj)
           hits == {j \in 1..Len(kids) :
                      /\ fd_tree[kids[j]].dataset
                      /\ Matches(fd_tree[kids[j]].name, NameHints, ContainsHints)}
           upto == IF hits = {} THEN Len(kids) ELSE Min(hits) - 1
           pushed == SelectSeq(SubSeq(kids, 1, upto), LAMBDA c : ~fd_tree[c].dataset)
       IN /\ fd_visited' = fd_visited \cup {obj}
          /\ fd_stack' = rest \o pushed
          /\ IF hits = {}
             THEN UNCHANGED <<fd_pc, fd_ret>>
             ELSE /\ fd_ret' = PathOf(fd_tree, kids[Min(hits)])
                  /\ fd_pc' = "returned"
    /\ UNCHANGED fd_tree
    /\ FindFrame

\* The stack is empty: `return None`.
FindNone ==
    /\ fd_pc = "run"
    /\ fd_stack = <<>>
    /\ fd_ret' = NoPath
    /\ fd_pc' = "returned"
    /\ UNCHANGED <<fd_tree, fd_stack, fd_visited>>
    /\ FindFrame

FindInit ==
    /\ files = {}
    /\ MergeIdle
    /\ MdIdle
    /\ NearIdle
    /\ ExIdle
    /\ FetchIdle
    /\ fd_tree \in Trees(MaxNodes)
    /\ fd_pc = "run"
    /\ fd_stack = <<0>>
    /\ fd_visited = {}
    /\ fd_ret = NoPath

FindNext == FindPop \/ FindNone

SpecFind == FindInit /\ [][FindNext]_vars

\* ---- claims about _find_dataset
\* The name of an object equals a name hint when case is ignored, or holds a
\* substring hint when case is ignored.
StatedMatch(name) ==
    \/ \E h \in NameHints :
          /\ Len(h) = Len(name)
          /\ \A i \in 1..Len(h) : LowerChar(h[i]) = LowerChar(name[i])
    \/ \E c \in ContainsHints : \E i \in 0..(Len(name) - Len(c)) :
          \A j \in 1..Len(c) : LowerChar(name[i + j]) = c[j]
MatchingLeaves ==
    {c \in 1..Len(fd_tree) : fd_tree[c].dataset /\ StatedMatch(fd_tree[c].name)}
Groups == {0} \cup {c \in 1..Len(fd_tree) : ~fd_tree[c].dataset}

\* C22: when _find_dataset has returned, a returned path is the path of a
\* dataset whose name matches the hints; None is returned exactly when no
\* dataset of the hierarchy matches; and before None is returned every group
\* and subgroup has been looked into.
C22_FindsMatchingLeaf ==
    fd_pc = "returned" =>
        /\ fd_ret # NoPath =>
                \E c \in MatchingLeaves : fd_ret = PathOf(fd_tree, c)
        /\ fd_ret = NoPath <=> MatchingLeaves = {}
        /\ fd_ret = NoPath => fd_visited = Groups
\* A dataset inside a subgroup was returned although the file also holds a
\* dataset that does not match and a group whose name does.
C22_Witness ==
    /\ fd_pc = "returned"
    /\ Len(fd_ret) = 2
    /\ \E c \in 1..Len(fd_tree) : fd_tree[c].dataset /\ ~StatedMatch(fd_tree[c].name)
    /\ \E c \in 1..Len(fd_tree) : ~fd_tree[c].dataset /\ StatedMatch(fd_tree[c].name)

\* =========================================================================
\* cpcb_download.fetch_measurements_for_sensor (the same loop as in
\* cpcb_final): the pages of one sensor.  all_results is the number of
\* records gathered.
\* =========================================================================
\* Line 32: the page size asked for.
limit == 1000
\* Line 108: the page number after which the loop stops.
PageLimit == 100
\* What a request can come to: a page of `limit` records, a shorter page (of
\* one record or of limit - 1), a page without records, an HTTP error of
\* status 422, 429 or another one, or any other exception.
Responses == {"full", "short", "empty", "422", "429", "other", "exception"}
ShortPages == {1, limit - 1}

FetchFrame == UNCHANGED <<files, mergeVars, mdVars, nearVars, exVars, findVars>>

\* Lines 88-124: one pass of `while True` from the request on.
FetchRequest ==
    /\ ft_pc = "request"
    /\ \E r \in Responses :
         /\ ft_last' = r
         /\ CASE r = "full" ->
                   /\ all_results' = all_results + limit
                   /\ page' = page + 1
                   /\ ft_pc' = IF page + 1 > PageLimit THEN "returned" ELSE "request"
              [] r = "short" ->
                   /\ \E n \in ShortPages : all_results' = all_results + n
                   /\ ft_pc' = "returned"
                   /\ UNCHANGED page
              [] r = "429" ->
                   /\ ft_pc' = "backoff"
                   /\ UNCHANGED <<page, all_results>>
              [] OTHER ->
                   /\ ft_pc' = "returned"
                   /\ UNCHANGED <<page, all_results>>
    /\ FetchFrame

\* Lines 116-118: after status 429, sleep(5) and `continue`: the same request
\* is made again.
FetchBackoff ==
    /\ ft_pc = "backoff"
    /\ ft_pc' = "request"
    /\ UNCHANGED <<page, all_results, ft_last>>
    /\ FetchFrame

FetchInit ==
    /\ files = {}
    /\ MergeIdle
    /\ MdIdle
    /\ NearIdle
    /\ ExIdle
    /\ FindIdle
    /\ ft_pc = "request"
    /\ page = 1
    /\ all_results = 0
    /\ ft_last = ""

FetchNext == FetchRequest \/ FetchBackoff

\* The loop keeps running as long as it has a step to take.
SpecFetch == FetchInit /\ [][FetchNext]_vars /\ WF_vars(FetchNext)

\* ---- claims about fetch_measurements_for_sensor
\* C26 (as claimed): whatever the server answers, the loop ends and the
\* function returns the records gathered so far.
C26_FetchTerminates == <>(ft_pc = "returned")
====
